---- MODULE Spec2Model ----
(***************************************************************************)
(* Role-based reporting workflow of the telegram-agent repository: the     *)
(* relational store (users, departments, user_roles, reports, approvals,   *)
(* summaries), the access-control functions of bot/permissions.py and the  *)
(* bot handlers and web routes that write the store.                       *)
(*                                                                         *)
(* Conventions.  A SQL NULL / Python None department id is 0 (department    *)
(* ids are AUTOINCREMENT row ids, so they start at 1, and the code tests   *)
(* them with "if not dept_id", which treats None and 0 alike).  A table is *)
(* a sequence in row-id order; no handler deletes a row of departments or  *)
(* reports, so a row's id is its index.  A text is a sequence of tokens,   *)
(* so that str.startswith is computed, not assumed.                        *)
(***************************************************************************)
EXTENDS Integers, Sequences, FiniteSets, TLC

(* ------------------------------ bounds --------------------------------- *)
MaxUser == 2
MaxDepts == 3
MaxUserRoles == 3
MaxReports == 2
MaxApprovals == 1
MaxSummaries == 1
\* what the specifications of one concern let the other tables grow to
DeptRoles == 2
AccessDepts == 2
AccessReports == 1
FlowDepts == 1
AssignDepts == 1
MaxWizardUser == 1

Users == 0..MaxUser
DeptIds == 1..MaxDepts
ReportIds == 1..MaxReports

(* ------------------------- program constants --------------------------- *)
ADMIN_USER_ID == 0
NULL == 0

RoleNames == {"employee", "manager", "upper_manager", "admin"}

\* roles.level as the schema inserts it
RoleLevel(name) ==
  CASE name = "employee" -> 10
    [] name = "manager" -> 50
    [] name = "upper_manager" -> 70
    [] name = "admin" -> 99

\* roles.permissions: the keys whose JSON value is true
RolePermissions(name) ==
  CASE name = "employee" -> {"can_create_report", "can_view_own"}
    [] name = "manager" ->
         {"can_create_report", "can_view_own", "can_view_department", "can_approve"}
    [] name = "upper_manager" ->
         {"can_create_report", "can_view_own", "can_view_department",
          "can_view_subdepartments", "can_approve", "can_create_cumulative"}
    [] name = "admin" ->
         {"can_create_report", "can_view_all", "can_approve", "can_create_cumulative",
          "can_manage_users", "can_manage_departments"}

(* ------------------------------- texts --------------------------------- *)
\* The strings GeminiClient.summarize_text returns for language = "ar",
\* one token per word (transliterated), punctuation as its own token.
MsgNoCandidates == <<"la", "yujad", "radd", "min", "alnamudhaj">>
MsgSafety == <<"tm", "hzr", "almuhtawa", "biwasitat", "falatir", "alaman">>
MsgRecitation == <<"almuhtawa", "mahmi", "bihuquq", "alnashr">>
MsgOther == <<"fashal", "fi", "altalkhis", "liasbab", "fanniya">>
MsgCannotExtract == <<"la", "yumkin", "istikhraj", "alnass", "min", "alradd">>
MsgException == <<"udhran", ",", "hadath", "khata", "fi", "altalkhis">>
\* a text the model itself produced
MsgSummary == <<"mulakhkhas", "altaqarir">>

PrefixSorry == <<"udhran">>
PrefixBlocked == <<"tm", "hzr">>

\* str.startswith
StartsWith(s, p) == Len(p) <= Len(s) /\ SubSeq(s, 1, Len(p)) = p

\* What the generation service does with one request.
GeminiOutcomes ==
  {"stop", "no_candidates", "safety", "recitation", "other", "no_text", "raises"}

summarize_text(outcome) ==
  CASE outcome = "raises" -> MsgException
    [] outcome = "no_candidates" -> MsgNoCandidates
    [] outcome = "safety" -> MsgSafety
    [] outcome = "recitation" -> MsgRecitation
    [] outcome = "other" -> MsgOther
    [] outcome = "no_text" -> MsgCannotExtract
    [] outcome = "stop" -> MsgSummary

(* ------------------------------- state --------------------------------- *)
VARIABLES
  users,        \* users table: user id -> "absent" | "active" | "inactive"
  departments,  \* departments table: rows [parent, level, active]
  user_roles,   \* user_roles table: rows [user, role, dept, active, primary]
  reports,      \* reports table: rows [status, visibility, submitted_by, dept,
                \*   is_cumulative, content, stamped, sources]
  approvals,    \* report_approvals table: rows [report, approver, status]
  summaries,    \* summaries table: rows [user, summary]
  cum_menu,     \* the users the bot has sent the cumulative period keyboard to
  reply,        \* what the last handler answered: [kind, text]
  txn,          \* per thread, the database write in progress: [op, phase]
  conv          \* per user, the two wizards' states and context.user_data:
                \*   [dept, report, bag]

vars == <<users, departments, user_roles, reports, approvals, summaries, cum_menu, reply,
          txn, conv>>

\* the bot's event loop and the web server's thread
Threads == {"bot", "web"}
\* no database write in progress
IdleTxn == [op |-> "none", phase |-> "idle"]
\* ConversationHandler.END, and both wizards ended with an empty user_data
END == "END"
IdleConv == [dept |-> END, report |-> END, bag |-> {}]

NoText == <<>>
\* kind: "none" (the handler returns without a message), "refused" (an error
\* or denial message), "done" (the message of the completed operation), or
\* the kind of a message whose text matters
Reply(kind) == [kind |-> kind, text |-> NoText]
ReplyText(kind, text) == [kind |-> kind, text |-> text]

(* ------------------------- sequence helpers ---------------------------- *)
Range(s) == {s[i] : i \in 1..Len(s)}

(* ---------------------- DatabaseEnhanced: reads ------------------------ *)
\* get_user: None when there is no row
UserExists(u) == u \in Users /\ users[u] # "absent"
\* "not user or not user.get('is_active', 1)" negated
UserActive(u) == u \in Users /\ users[u] = "active"

get_department(dept_id) == dept_id \in 1..Len(departments)

\* get_all_departments(active_only=True): ids of the active rows
get_all_departments == {d \in 1..Len(departments) : departments[d].active}

RECURSIVE ChildrenFrom(_, _)
\* the ids k.. of the rows whose parent_department_id is id, in row order
ChildrenFrom(id, k) ==
  IF k > Len(departments) THEN <<>>
  ELSE (IF departments[k].parent = id THEN <<k>> ELSE <<>>) \o ChildrenFrom(id, k + 1)

RECURSIVE JoinChildren(_)
\* one step of the recursive member: JOIN dept_tree dt ON d.parent_department_id = dt.id
JoinChildren(frontier) ==
  IF frontier = <<>> THEN <<>>
  ELSE ChildrenFrom(Head(frontier), 1) \o JoinChildren(Tail(frontier))

RECURSIVE DeptTree(_, _, _)
\* WITH RECURSIVE dept_tree ... UNION ALL: rows are never de-duplicated, so the
\* query returns iff the frontier runs empty.  With n rows and no cycle below the
\* start at most n levels are non-empty; a frontier still non-empty after n levels
\* lies on a cycle and the query never returns (terminates = FALSE).
DeptTree(frontier, acc, fuel) ==
  IF frontier = <<>> THEN [terminates |-> TRUE, ids |-> acc]
  ELSE IF fuel = 0 THEN [terminates |-> FALSE, ids |-> <<>>]
  ELSE DeptTree(JoinChildren(frontier), acc \o frontier, fuel - 1)

\* the query without its recursive member's recursion: the row and its children
HierarchyOneLevel(dept_id) ==
  IF get_department(dept_id)
  THEN [terminates |-> TRUE, ids |-> <<dept_id>> \o ChildrenFrom(dept_id, 1)]
  ELSE [terminates |-> TRUE, ids |-> <<>>]

get_department_hierarchy(dept_id) ==
  DeptTree(IF get_department(dept_id) THEN <<dept_id>> ELSE <<>>, <<>>, Len(departments))

NoRole == [user |-> -1, role |-> "none", dept |-> NULL, active |-> FALSE, primary |-> FALSE]

\* get_user_roles: the active assignments of the user, in row order
get_user_roles(u) == SelectSeq(user_roles, LAMBDA r : r.user = u /\ r.active)

\* max(roles, key=level): the first row of the highest level; NoRole for None
MaxByLevel(rs) ==
  IF rs = <<>> THEN NoRole
  ELSE rs[CHOOSE i \in 1..Len(rs) :
            \A j \in 1..Len(rs) :
               /\ RoleLevel(rs[j].role) <= RoleLevel(rs[i].role)
               /\ (j < i => RoleLevel(rs[j].role) < RoleLevel(rs[i].role))]

get_user_primary_role(u) == MaxByLevel(get_user_roles(u))

get_user_department(u) == get_user_primary_role(u).dept

has_permission(u, permission) ==
  \E r \in Range(get_user_roles(u)) : permission \in RolePermissions(r.role)

\* can_access_department; terminates = FALSE when the hierarchy query never returns
can_access_department(u, dept_id) ==
  LET user_role == get_user_primary_role(u)
      h == get_department_hierarchy(user_role.dept)
  IN IF user_role = NoRole THEN [terminates |-> TRUE, value |-> FALSE]
     ELSE IF user_role.role = "admin" THEN [terminates |-> TRUE, value |-> TRUE]
     ELSE IF user_role.dept = NULL THEN [terminates |-> TRUE, value |-> FALSE]
     ELSE IF user_role.dept = dept_id THEN [terminates |-> TRUE, value |-> TRUE]
     ELSE IF "can_view_subdepartments" \in RolePermissions(user_role.role)
          THEN [terminates |-> h.terminates,
                value |-> h.terminates /\ dept_id \in Range(h.ids)]
     ELSE [terminates |-> TRUE, value |-> FALSE]

\* get_report: the row JOIN users JOIN departments; FALSE for None
get_report(rid) ==
  /\ rid \in 1..Len(reports)
  /\ UserExists(reports[rid].submitted_by)
  /\ get_department(reports[rid].dept)

(* ---------------------------- AccessControl ---------------------------- *)
can_create_report(u) == UserActive(u) /\ has_permission(u, "can_create_report")

can_create_cumulative_report(u) ==
  UserActive(u) /\ has_permission(u, "can_create_cumulative")

can_manage_users(u) == UserActive(u) /\ has_permission(u, "can_manage_users")

is_admin(u) == UserActive(u) /\ get_user_primary_role(u).role = "admin"

is_manager(u) ==
  UserActive(u) /\ get_user_primary_role(u).role \in {"manager", "upper_manager", "admin"}

\* the visibility and department rules without the submitter rule
ViewRowWithoutSubmitterRule(u, r) ==
  IF r.visibility = "public" THEN [terminates |-> TRUE, value |-> TRUE]
  ELSE can_access_department(u, r.dept)

\* can_view_report on a report row r (the dict get_report returned)
ViewRow(u, r) ==
  IF r.submitted_by = u THEN [terminates |-> TRUE, value |-> TRUE]
  ELSE IF r.visibility = "public" THEN [terminates |-> TRUE, value |-> TRUE]
  ELSE can_access_department(u, r.dept)

can_view_report(u, rid) ==
  IF ~UserActive(u) THEN [terminates |-> TRUE, value |-> FALSE]
  ELSE IF ~get_report(rid) THEN [terminates |-> TRUE, value |-> FALSE]
  ELSE ViewRow(u, reports[rid])

can_approve_report(u, rid) ==
  IF ~UserActive(u) THEN [terminates |-> TRUE, value |-> FALSE]
  ELSE IF ~has_permission(u, "can_approve") THEN [terminates |-> TRUE, value |-> FALSE]
  ELSE IF ~get_report(rid) THEN [terminates |-> TRUE, value |-> FALSE]
  ELSE IF reports[rid].submitted_by = u THEN [terminates |-> TRUE, value |-> FALSE]
  ELSE can_access_department(u, reports[rid].dept)

\* get_accessible_departments: [terminates, ids]
get_accessible_departments(u) ==
  LET user_role == get_user_primary_role(u)
      all == get_all_departments
  IN IF ~UserActive(u) THEN [terminates |-> TRUE, ids |-> <<>>]
     ELSE IF user_role = NoRole THEN [terminates |-> TRUE, ids |-> <<>>]
     ELSE IF user_role.role = "admin"
          THEN [terminates |-> TRUE,
                ids |-> SelectSeq([d \in 1..Len(departments) |-> d], LAMBDA d : d \in all)]
     ELSE IF user_role.dept = NULL THEN [terminates |-> TRUE, ids |-> <<>>]
     ELSE IF "can_view_subdepartments" \in RolePermissions(user_role.role)
          THEN get_department_hierarchy(user_role.dept)
     ELSE IF "can_view_department" \in RolePermissions(user_role.role)
          THEN [terminates |-> TRUE, ids |-> <<user_role.dept>>]
     ELSE [terminates |-> TRUE, ids |-> <<>>]

\* validate_report_creation(user_id, department_id): the boolean of the pair
\* validate_report_creation that asks for the capability alone
ValidateCapabilityOnly(u, department_id) ==
  /\ has_permission(u, "can_create_report")
  /\ \/ get_user_primary_role(u).role = "admin"
     \/ department_id = get_user_department(u)

validate_report_creation(u, department_id) ==
  /\ UserActive(u)
  /\ can_create_report(u)
  /\ \/ get_user_primary_role(u).role = "admin"
     \/ department_id = get_user_department(u)

(* ---------------------- DatabaseEnhanced: writes ----------------------- *)
\* add_user: INSERT OR REPLACE ... is_active = 1
add_user(u) == [users EXCEPT ![u] = "active"]

\* deactivate_user, and the UPDATE users SET is_active = 0 of /removeuser
deactivate_user(u) == [users EXCEPT ![u] = "inactive"]

\* create_department: level = parent's level + 1 when the parent row is found
create_department(parent_id) ==
  Append(departments,
         [parent |-> parent_id,
          level |-> IF parent_id # NULL /\ get_department(parent_id)
                    THEN departments[parent_id].level + 1 ELSE 0,
          active |-> TRUE])

\* UNIQUE(user_id, role_id, department_id): a NULL department never conflicts
RoleConflict(u, role_name, dept) ==
  dept # NULL /\ \E i \in 1..Len(user_roles) :
     user_roles[i].user = u /\ user_roles[i].role = role_name /\ user_roles[i].dept = dept

\* assign_role without the UPDATE that unsets the user's other primary rows
AssignRoleKeepingPrimaries(u, role_name, dept, is_primary) ==
  IF ~RoleConflict(u, role_name, dept)
  THEN Append(user_roles, [user |-> u, role |-> role_name, dept |-> dept,
                           active |-> TRUE, primary |-> is_primary])
  ELSE [i \in 1..Len(user_roles) |->
          IF user_roles[i].user = u /\ user_roles[i].role = role_name
             /\ user_roles[i].dept = dept
          THEN [user_roles[i] EXCEPT !.active = TRUE, !.primary = is_primary]
          ELSE user_roles[i]]

\* assign_role: the user_roles table after the call (the call returns True)
assign_role(u, role_name, dept, is_primary) ==
  LET cleared == IF is_primary
                 THEN [i \in 1..Len(user_roles) |->
                         IF user_roles[i].user = u
                         THEN [user_roles[i] EXCEPT !.primary = FALSE]
                         ELSE user_roles[i]]
                 ELSE user_roles
  IN IF ~RoleConflict(u, role_name, dept)
     THEN Append(cleared, [user |-> u, role |-> role_name, dept |-> dept,
                           active |-> TRUE, primary |-> is_primary])
     ELSE [i \in 1..Len(cleared) |->
             IF cleared[i].user = u /\ cleared[i].role = role_name /\ cleared[i].dept = dept
             THEN [cleared[i] EXCEPT !.active = TRUE, !.primary = is_primary]
             ELSE cleared[i]]

\* the table has room for the row assign_role inserts
RoleRowFits(u, role_name, dept) ==
  RoleConflict(u, role_name, dept) \/ Len(user_roles) < MaxUserRoles

\* create_report: visibility takes the column default, submitted_at is stamped
\* unless the status is draft
create_report(content, u, department_id, status) ==
  Append(reports,
         [status |-> status, visibility |-> "department", submitted_by |-> u,
          dept |-> department_id, is_cumulative |-> FALSE, content |-> content,
          stamped |-> status # "draft", sources |-> {}])

\* update_report_status: stamps submitted_at only on entering submitted
update_report_status(rid, status) ==
  IF rid \in 1..Len(reports)
  THEN [reports EXCEPT ![rid] =
          [@ EXCEPT !.status = status,
                    !.stamped = IF status = "submitted" THEN TRUE ELSE @]]
  ELSE reports

\* a cumulative report that starts like a wizard draft
CreateCumulativeAsDraft(source_report_ids, u, department_id, content) ==
  Append(reports,
         [status |-> "draft", visibility |-> "department", submitted_by |-> u,
          dept |-> department_id, is_cumulative |-> TRUE, content |-> content,
          stamped |-> FALSE, sources |-> source_report_ids])

\* create_cumulative_report
create_cumulative_report(source_report_ids, u, department_id, content) ==
  Append(reports,
         [status |-> "submitted", visibility |-> "department", submitted_by |-> u,
          dept |-> department_id, is_cumulative |-> TRUE, content |-> content,
          stamped |-> TRUE, sources |-> source_report_ids])

\* add_approval that returns without inserting the row
ApprovalNotRecorded(rid, approver, status) == approvals

add_approval(rid, approver, status) ==
  Append(approvals, [report |-> rid, approver |-> approver, status |-> status])

save_summary(u, summary) == Append(summaries, [user |-> u, summary |-> summary])

\* get_hierarchical_reports(dept, start, end, status): ids of the rows
\* JOIN users JOIN departments in the hierarchy, of that status, whose
\* DATE(submitted_at) lies in the period; a NULL submitted_at never does.
\* since: the first report id that is not older than the period's start.
get_hierarchical_reports(dept_id, since, status) ==
  LET h == get_department_hierarchy(dept_id)
  IN {rid \in 1..Len(reports) :
        /\ get_report(rid)
        /\ reports[rid].dept \in Range(h.ids)
        /\ reports[rid].status = status
        /\ reports[rid].stamped
        /\ rid >= since}

\* the text a user typed into the report wizard
UserText == <<"nass", "altaqrir">>

(* ------------------------------- Init ---------------------------------- *)
\* main_enhanced.py: a fresh database, then create_default_admin: user 0 with
\* the admin role, no department, primary.
Init ==
  /\ users = [u \in Users |-> IF u = ADMIN_USER_ID THEN "active" ELSE "absent"]
  /\ departments = <<>>
  /\ user_roles = <<[user |-> ADMIN_USER_ID, role |-> "admin", dept |-> NULL,
                     active |-> TRUE, primary |-> TRUE]>>
  /\ reports = <<>>
  /\ approvals = <<>>
  /\ summaries = <<>>
  /\ cum_menu = {}
  /\ reply = Reply("none")
  /\ txn = [t \in Threads |-> IdleTxn]
  /\ conv = [u \in Users |-> IdleConv]

(* ---------------------------- bot handlers ----------------------------- *)
\* handlers.start
start(u) ==
  /\ users' = add_user(u)
  /\ reply' = Reply("done")
  /\ UNCHANGED <<departments, user_roles, reports, approvals, summaries, cum_menu,
               txn, conv>>

\* report_handlers.register_command
register_command(u) ==
  /\ users' = add_user(u)
  /\ reply' = IF get_all_departments = {} THEN Reply("refused")
              ELSE Reply("done")
  /\ UNCHANGED <<departments, user_roles, reports, approvals, summaries, cum_menu,
               txn, conv>>

\* the registration button without the look at the user's existing roles
RegisterWithoutRoleCheck(u, dept_id) ==
  /\ UserExists(u)
  /\ get_department(dept_id)
  /\ RoleRowFits(u, "employee", dept_id)
  /\ user_roles' = assign_role(u, "employee", dept_id, TRUE)
  /\ reply' = Reply("done")
  /\ UNCHANGED <<users, departments, reports, approvals, summaries, cum_menu,
               txn, conv>>

\* report_handlers.register_department_callback.  The button is one of the
\* keyboard register_command sent to this user, so the user has a row and the
\* department id is one of a department that was listed.
register_department_callback(u, dept_id) ==
  /\ UserExists(u)
  /\ get_department(dept_id)
  /\ IF get_user_roles(u) # <<>>
     THEN /\ reply' = Reply("refused")
          /\ UNCHANGED user_roles
     ELSE /\ RoleRowFits(u, "employee", dept_id)
          /\ user_roles' = assign_role(u, "employee", dept_id, TRUE)
          /\ reply' = Reply("done")
  /\ UNCHANGED <<users, departments, reports, approvals, summaries, cum_menu,
               txn, conv>>

\* report_handlers.save_report, action = "submit_report" | "draft_report".
\* create_report_command admits whoever can_create_report; validate_report_creation
\* asks the same again here, so the handler is modelled from the confirm step.
save_report(u, action) ==
  LET user_dept == get_user_department(u) IN
  /\ IF user_dept = NULL
     THEN /\ reply' = Reply("refused")
          /\ conv' = [conv EXCEPT ![u].report = END]
          /\ UNCHANGED reports
     ELSE IF ~validate_report_creation(u, user_dept)
     THEN /\ reply' = Reply("refused")
          /\ conv' = [conv EXCEPT ![u].report = END]
          /\ UNCHANGED reports
     ELSE /\ Len(reports) < MaxReports
          /\ reports' = create_report(UserText, u, user_dept,
                                      IF action = "submit_report" THEN "submitted" ELSE "draft")
          /\ conv' = [conv EXCEPT ![u] = IdleConv]
          /\ reply' = Reply("done")
  /\ UNCHANGED <<users, departments, user_roles, approvals, summaries, cum_menu, txn>>

\* the body approve_report_command and approve_button_callback share.  When
\* can_approve_report never returns the handler never answers: no step.
Approve(u, rid) ==
  LET can == can_approve_report(u, rid) IN
  /\ can.terminates
  /\ IF ~can.value
     THEN /\ reply' = Reply("refused")
          /\ UNCHANGED <<reports, approvals>>
     ELSE /\ Len(approvals) < MaxApprovals
          /\ approvals' = add_approval(rid, u, "approved")
          /\ reports' = update_report_status(rid, "approved")
          /\ reply' = Reply("done")
  /\ UNCHANGED <<users, departments, user_roles, summaries, cum_menu,
               txn, conv>>

\* report_handlers.approve_report_command: /approve_report <any number>
approve_report_command(u, rid) == Approve(u, rid)

\* report_handlers.approve_button_callback: the button of a report that was shown
approve_button_callback(u, rid) == rid \in 1..Len(reports) /\ Approve(u, rid)

\* report_handlers.create_cumulative_command
create_cumulative_command(u) ==
  /\ IF ~can_create_cumulative_report(u)
     THEN /\ reply' = Reply("refused")
          /\ UNCHANGED cum_menu
     ELSE /\ reply' = Reply("done")
          /\ cum_menu' = cum_menu \cup {u}
  /\ UNCHANGED <<users, departments, user_roles, reports, approvals, summaries,
               txn, conv>>

\* report_handlers.cumulative_period_handler: a button of the period keyboard.
\* since: where the chosen period starts among the reports; outcome: what the
\* generation service does.  No step when the hierarchy query never returns.
cumulative_period_handler(u, since, outcome) ==
  LET user_dept == get_user_department(u)
      accessible_depts == get_department_hierarchy(user_dept)
      found == get_hierarchical_reports(user_dept, since, "approved")
      summary == summarize_text(outcome)
  IN
  /\ u \in cum_menu
  /\ accessible_depts.terminates
  /\ IF found = {}
     THEN /\ reply' = Reply("refused")
          /\ UNCHANGED reports
     ELSE /\ Len(reports) < MaxReports
          /\ reports' = create_cumulative_report(found, u, user_dept, summary)
          /\ reply' = ReplyText("cumulative_created", summary)
  /\ UNCHANGED <<users, departments, user_roles, approvals, summaries, cum_menu,
               txn, conv>>

\* a check for the apology prefix alone
IsErrorMessageSorryOnly(summary) == StartsWith(summary, PrefixSorry)

\* summary_command's test "summary is error message"
IsErrorMessage(summary) ==
  StartsWith(summary, PrefixSorry) \/ StartsWith(summary, PrefixBlocked)

\* summary_command gets as far as the summarization call: the user has a
\* report whose content is not empty
CallsSummarize(u) ==
  \E rid \in 1..Len(reports) :
     reports[rid].submitted_by = u /\ get_report(rid) /\ reports[rid].content # NoText

\* handlers.summary_command
summary_command(u, outcome) ==
  LET mine == {rid \in 1..Len(reports) :
                 reports[rid].submitted_by = u /\ get_department(reports[rid].dept)}
      with_content == {rid \in mine : get_report(rid) /\ reports[rid].content # NoText}
      summary == summarize_text(outcome)
  IN
  /\ IF mine = {}
     THEN /\ reply' = Reply("refused")
          /\ UNCHANGED summaries
     ELSE IF with_content = {}
     THEN /\ reply' = Reply("refused")
          /\ UNCHANGED summaries
     ELSE IF IsErrorMessage(summary)
     THEN /\ reply' = ReplyText("summary_failed", summary)
          /\ UNCHANGED summaries
     ELSE /\ Len(summaries) < MaxSummaries
          /\ summaries' = save_summary(u, summary)
          /\ reply' = ReplyText("summary", summary)
  /\ UNCHANGED <<users, departments, user_roles, reports, approvals, cum_menu,
               txn, conv>>

(* ----------------------- hidden admin commands ------------------------- *)
HasActiveAdminRole(u) == \E r \in Range(get_user_roles(u)) : r.role = "admin"

\* report_handlers.create_admin_command: /createadmin <user_id>
create_admin_command(a, t) ==
  /\ IF ~is_admin(a)
     THEN /\ reply' = Reply("none")
          /\ UNCHANGED user_roles
     ELSE IF ~UserExists(t)
     THEN /\ reply' = Reply("refused")
          /\ UNCHANGED user_roles
     ELSE IF HasActiveAdminRole(t)
     THEN /\ reply' = Reply("refused")
          /\ UNCHANGED user_roles
     ELSE /\ RoleRowFits(t, "admin", NULL)
          /\ user_roles' = assign_role(t, "admin", NULL, TRUE)
          /\ reply' = Reply("done")
  /\ UNCHANGED <<users, departments, reports, approvals, summaries, cum_menu,
               txn, conv>>

\* /removeadmin without the refusal to remove one's own admin role
RemoveAdminAlsoSelf(a, t) ==
  /\ IF ~is_admin(a)
     THEN /\ reply' = Reply("none")
          /\ UNCHANGED user_roles
     ELSE IF ~UserExists(t)
     THEN /\ reply' = Reply("refused")
          /\ UNCHANGED user_roles
     ELSE IF ~HasActiveAdminRole(t)
     THEN /\ reply' = Reply("refused")
          /\ UNCHANGED user_roles
     ELSE /\ user_roles' = [i \in 1..Len(user_roles) |->
                              IF user_roles[i].user = t /\ user_roles[i].role = "admin"
                              THEN [user_roles[i] EXCEPT !.active = FALSE]
                              ELSE user_roles[i]]
          /\ reply' = Reply("done")
  /\ UNCHANGED <<users, departments, reports, approvals, summaries, cum_menu,
               txn, conv>>

\* report_handlers.remove_admin_command: /removeadmin <user_id>
remove_admin_command(a, t) ==
  /\ IF ~is_admin(a)
     THEN /\ reply' = Reply("none")
          /\ UNCHANGED user_roles
     ELSE IF t = a
     THEN /\ reply' = Reply("refused")
          /\ UNCHANGED user_roles
     ELSE IF ~UserExists(t)
     THEN /\ reply' = Reply("refused")
          /\ UNCHANGED user_roles
     ELSE IF ~HasActiveAdminRole(t)
     THEN /\ reply' = Reply("refused")
          /\ UNCHANGED user_roles
     ELSE /\ user_roles' = [i \in 1..Len(user_roles) |->
                              IF user_roles[i].user = t /\ user_roles[i].role = "admin"
                              THEN [user_roles[i] EXCEPT !.active = FALSE]
                              ELSE user_roles[i]]
          /\ reply' = Reply("done")
  /\ UNCHANGED <<users, departments, reports, approvals, summaries, cum_menu,
               txn, conv>>

\* report_handlers.promote_manager_command: /promote <user_id> <role> [department_id].
\* dept_arg = NULL: the argument is left out (or is 0).  The department is not
\* looked up before the role is assigned.
promote_manager_command(a, t, role_name, dept_arg) ==
  LET dept_id == IF dept_arg = NULL THEN get_user_department(t) ELSE dept_arg IN
  /\ role_name \in {"manager", "upper_manager"}
  /\ IF ~is_admin(a)
     THEN /\ reply' = Reply("none")
          /\ UNCHANGED user_roles
     ELSE IF ~UserExists(t)
     THEN /\ reply' = Reply("refused")
          /\ UNCHANGED user_roles
     ELSE IF dept_id = NULL
     THEN /\ reply' = Reply("refused")
          /\ UNCHANGED user_roles
     ELSE /\ RoleRowFits(t, role_name, dept_id)
          /\ user_roles' = assign_role(t, role_name, dept_id, TRUE)
          /\ reply' = IF get_department(dept_id) THEN Reply("done") ELSE Reply("none")
  /\ UNCHANGED <<users, departments, reports, approvals, summaries, cum_menu,
               txn, conv>>

\* report_handlers.remove_user_command: /removeuser <user_id>
remove_user_command(a, t) ==
  /\ IF ~is_admin(a)
     THEN /\ reply' = Reply("none")
          /\ UNCHANGED <<users, user_roles>>
     ELSE IF t = a
     THEN /\ reply' = Reply("refused")
          /\ UNCHANGED <<users, user_roles>>
     ELSE IF ~UserExists(t)
     THEN /\ reply' = Reply("refused")
          /\ UNCHANGED <<users, user_roles>>
     ELSE IF HasActiveAdminRole(t)
     THEN /\ reply' = Reply("refused")
          /\ UNCHANGED <<users, user_roles>>
     ELSE /\ users' = deactivate_user(t)
          /\ user_roles' = [i \in 1..Len(user_roles) |->
                              IF user_roles[i].user = t
                              THEN [user_roles[i] EXCEPT !.active = FALSE]
                              ELSE user_roles[i]]
          /\ reply' = Reply("done")
  /\ UNCHANGED <<departments, reports, approvals, summaries, cum_menu,
               txn, conv>>

\* report_handlers.activate_user_command: /activateuser <user_id>
activate_user_command(a, t) ==
  /\ IF ~is_admin(a)
     THEN /\ reply' = Reply("none")
          /\ UNCHANGED users
     ELSE IF ~UserExists(t)
     THEN /\ reply' = Reply("refused")
          /\ UNCHANGED users
     ELSE IF UserActive(t)
     THEN /\ reply' = Reply("refused")
          /\ UNCHANGED users
     ELSE /\ users' = [users EXCEPT ![t] = "active"]
          /\ reply' = Reply("done")
  /\ UNCHANGED <<departments, user_roles, reports, approvals, summaries, cum_menu,
               txn, conv>>

(* ----------------------------- web routes ------------------------------ *)
\* login: the user has a row and the primary role is manager or above (the
\* active flag is not asked for).  A session lasts, but every route below asks
\* again for at least as much, so a request is modelled with its login.
WebLogin(u) ==
  UserExists(u) /\ get_user_primary_role(u).role \in {"manager", "upper_manager", "admin"}

\* admin_required
admin_required(u) == WebLogin(u) /\ is_admin(u)

\* manager_required
manager_required(u) ==
  WebLogin(u) /\ get_user_primary_role(u).role \in {"manager", "upper_manager", "admin"}

\* web create_admin: POST /users/create-admin
web_create_admin(a, t) ==
  /\ admin_required(a)
  /\ IF ~UserExists(t)
     THEN /\ reply' = Reply("refused")
          /\ UNCHANGED user_roles
     ELSE /\ RoleRowFits(t, "admin", NULL)
          /\ user_roles' = assign_role(t, "admin", NULL, TRUE)
          /\ reply' = Reply("done")
  /\ UNCHANGED <<users, departments, reports, approvals, summaries, cum_menu,
               txn, conv>>

\* web promote_user: POST /users/promote; the department is that of the
\* target's first active assignment
web_promote_user(a, t, role_name) ==
  LET rs == get_user_roles(t)
      dept_id == IF rs # <<>> THEN rs[1].dept ELSE NULL
  IN
  /\ admin_required(a)
  /\ role_name \in {"manager", "upper_manager"}
  /\ IF ~UserExists(t)
     THEN /\ reply' = Reply("refused")
          /\ UNCHANGED user_roles
     ELSE /\ RoleRowFits(t, role_name, dept_id)
          /\ user_roles' = assign_role(t, role_name, dept_id, TRUE)
          /\ reply' = Reply("done")
  /\ UNCHANGED <<users, departments, reports, approvals, summaries, cum_menu,
               txn, conv>>

\* web remove_user: POST /users/remove
web_remove_user(a, t) ==
  /\ admin_required(a)
  /\ IF t = a
     THEN /\ reply' = Reply("refused")
          /\ UNCHANGED users
     ELSE IF is_admin(t)
     THEN /\ reply' = Reply("refused")
          /\ UNCHANGED users
     ELSE IF ~UserExists(t)
     THEN /\ reply' = Reply("refused")
          /\ UNCHANGED users
     ELSE /\ users' = deactivate_user(t)
          /\ reply' = Reply("done")
  /\ UNCHANGED <<departments, user_roles, reports, approvals, summaries, cum_menu,
               txn, conv>>

\* web activate_user: POST /users/activate
web_activate_user(a, t) ==
  /\ admin_required(a)
  /\ IF ~UserExists(t)
     THEN /\ reply' = Reply("refused")
          /\ UNCHANGED users
     ELSE IF UserActive(t)
     THEN /\ reply' = Reply("refused")
          /\ UNCHANGED users
     ELSE /\ users' = [users EXCEPT ![t] = "active"]
          /\ reply' = Reply("done")
  /\ UNCHANGED <<departments, user_roles, reports, approvals, summaries, cum_menu,
               txn, conv>>

\* web assign_user_department: POST /users/assign-department
web_assign_user_department(a, t, dept_id, role_name) ==
  /\ admin_required(a)
  /\ role_name \in {"employee", "manager", "upper_manager"}
  /\ IF ~UserExists(t) \/ ~get_department(dept_id)
     THEN /\ reply' = Reply("refused")
          /\ UNCHANGED user_roles
     ELSE /\ RoleRowFits(t, role_name, dept_id)
          /\ user_roles' = assign_role(t, role_name, dept_id, TRUE)
          /\ reply' = Reply("done")
  /\ UNCHANGED <<users, departments, reports, approvals, summaries, cum_menu,
               txn, conv>>

\* web create_department: POST /departments/create; parent_id is whatever
\* number the form carries (NULL: the field is empty)
web_create_department(a, parent_id) ==
  /\ manager_required(a)
  /\ Len(departments) < MaxDepts
  /\ departments' = create_department(parent_id)
  /\ reply' = Reply("done")
  /\ UNCHANGED <<users, user_roles, reports, approvals, summaries, cum_menu,
               txn, conv>>

\* web remove_department: POST /departments/remove
web_remove_department(a, dept_id) ==
  /\ admin_required(a)
  /\ IF ~get_department(dept_id)
     THEN /\ reply' = Reply("refused")
          /\ UNCHANGED departments
     ELSE /\ departments' = [departments EXCEPT ![dept_id].active = FALSE]
          /\ reply' = Reply("done")
  /\ UNCHANGED <<users, user_roles, reports, approvals, summaries, cum_menu,
               txn, conv>>

(* ------------------------------ the system ----------------------------- *)
Next ==
  \/ \E u \in Users : start(u)
  \/ \E u \in Users : register_command(u)
  \/ \E u \in Users, d \in DeptIds : register_department_callback(u, d)
  \/ \E u \in Users, action \in {"submit_report", "draft_report"} : save_report(u, action)
  \/ \E u \in Users, rid \in ReportIds : approve_report_command(u, rid)
  \/ \E u \in Users, rid \in ReportIds : approve_button_callback(u, rid)
  \/ \E u \in Users : create_cumulative_command(u)
  \/ \E u \in Users, since \in ReportIds, outcome \in GeminiOutcomes :
        cumulative_period_handler(u, since, outcome)
  \/ \E u \in Users, outcome \in GeminiOutcomes : summary_command(u, outcome)
  \/ \E a \in Users, t \in Users : create_admin_command(a, t)
  \/ \E a \in Users, t \in Users : remove_admin_command(a, t)
  \/ \E a \in Users, t \in Users, role_name \in {"manager", "upper_manager"},
        d \in {NULL} \cup DeptIds : promote_manager_command(a, t, role_name, d)
  \/ \E a \in Users, t \in Users : remove_user_command(a, t)
  \/ \E a \in Users, t \in Users : activate_user_command(a, t)
  \/ \E a \in Users, t \in Users : web_create_admin(a, t)
  \/ \E a \in Users, t \in Users, role_name \in {"manager", "upper_manager"} :
        web_promote_user(a, t, role_name)
  \/ \E a \in Users, t \in Users : web_remove_user(a, t)
  \/ \E a \in Users, t \in Users : web_activate_user(a, t)
  \/ \E a \in Users, t \in Users, d \in DeptIds,
        role_name \in {"employee", "manager", "upper_manager"} :
        web_assign_user_department(a, t, d, role_name)
  \/ \E a \in Users, parent_id \in {NULL} \cup DeptIds : web_create_department(a, parent_id)
  \/ \E a \in Users, d \in DeptIds : web_remove_department(a, d)

Spec == Init /\ [][Next]_vars

(* -------------------- the system, one concern at a time ---------------- *)
\* Each specification below runs the handlers that write the tables one group
\* of properties reads, from the same Init, so that its states can be
\* enumerated with more departments, roles and reports than the whole system
\* allows.  Every behaviour of such a specification is a behaviour of Spec.

\* Departments and the roles held in them.
KeepsDepartments == Len(user_roles') <= DeptRoles

NextDepartments ==
  \/ \E u \in Users : start(u) /\ KeepsDepartments
  \/ \E a \in Users, t \in Users, d \in DeptIds :
        promote_manager_command(a, t, "upper_manager", d) /\ KeepsDepartments
  \/ \E a \in Users, parent_id \in {NULL} \cup DeptIds :
        web_create_department(a, parent_id) /\ KeepsDepartments
  \/ \E a \in Users, d \in DeptIds : web_remove_department(a, d) /\ KeepsDepartments

SpecDepartments == Init /\ [][NextDepartments]_vars

\* Who may read and approve a report: registration, promotion, deactivation,
\* root departments and the report wizard.
KeepsAccess == Len(reports') <= AccessReports /\ Len(departments') <= AccessDepts

NextAccess ==
  \/ \E u \in Users : register_command(u) /\ KeepsAccess
  \/ \E u \in Users, d \in 1..AccessDepts :
        register_department_callback(u, d) /\ KeepsAccess
  \/ \E a \in Users, t \in Users, d \in 1..AccessDepts :
        promote_manager_command(a, t, "manager", d) /\ KeepsAccess
  \/ \E a \in Users, t \in Users : web_remove_user(a, t) /\ KeepsAccess
  \/ \E a \in Users : web_create_department(a, NULL) /\ KeepsAccess
  \/ \E a \in Users, d \in 1..AccessDepts : web_remove_department(a, d) /\ KeepsAccess
  \/ \E u \in Users, action \in {"submit_report", "draft_report"} :
        save_report(u, action) /\ KeepsAccess

SpecAccess == Init /\ [][NextAccess]_vars

\* The life of a report: the wizard, approval, cumulative reports.
KeepsFlow == Len(departments') <= FlowDepts

NextWorkflow ==
  \/ \E u \in Users : register_command(u) /\ KeepsFlow
  \/ \E u \in Users, d \in DeptIds : register_department_callback(u, d) /\ KeepsFlow
  \/ \E a \in Users, t \in Users, d \in DeptIds :
        promote_manager_command(a, t, "upper_manager", d) /\ KeepsFlow
  \/ \E a \in Users : web_create_department(a, NULL) /\ KeepsFlow
  \/ \E u \in Users, action \in {"submit_report", "draft_report"} :
        save_report(u, action) /\ KeepsFlow
  \/ \E u \in Users, rid \in ReportIds : approve_report_command(u, rid) /\ KeepsFlow
  \/ \E u \in Users, rid \in ReportIds : approve_button_callback(u, rid) /\ KeepsFlow
  \/ \E u \in Users : create_cumulative_command(u) /\ KeepsFlow
  \/ \E u \in Users, since \in ReportIds, outcome \in GeminiOutcomes :
        cumulative_period_handler(u, since, outcome) /\ KeepsFlow

SpecWorkflow == Init /\ [][NextWorkflow]_vars

\* Who is given which role.
NextRoles ==
  \/ \E u \in Users : start(u) /\ KeepsFlow
  \/ \E a \in Users : web_create_department(a, NULL) /\ KeepsFlow
  \/ \E a \in Users, t \in Users : create_admin_command(a, t) /\ KeepsFlow
  \/ \E a \in Users, t \in Users : remove_admin_command(a, t) /\ KeepsFlow
  \/ \E a \in Users, t \in Users, role_name \in {"manager", "upper_manager"},
        d \in {NULL} \cup DeptIds :
        promote_manager_command(a, t, role_name, d) /\ KeepsFlow
  \/ \E a \in Users, t \in Users : web_create_admin(a, t) /\ KeepsFlow
  \/ \E a \in Users, t \in Users, role_name \in {"manager", "upper_manager"} :
        web_promote_user(a, t, role_name) /\ KeepsFlow
  \/ \E a \in Users, t \in Users, d \in DeptIds,
        role_name \in {"employee", "manager", "upper_manager"} :
        web_assign_user_department(a, t, d, role_name) /\ KeepsFlow

SpecRoles == Init /\ [][NextRoles]_vars

\* /summary over the reports a user wrote.
NextSummary ==
  \/ \E u \in Users : register_command(u) /\ KeepsFlow
  \/ \E u \in Users, d \in DeptIds : register_department_callback(u, d) /\ KeepsFlow
  \/ \E a \in Users : web_create_department(a, NULL) /\ KeepsFlow
  \/ \E u \in Users, action \in {"submit_report", "draft_report"} :
        save_report(u, action) /\ KeepsFlow
  \/ \E u \in Users, outcome \in GeminiOutcomes : summary_command(u, outcome) /\ KeepsFlow

SpecSummary == Init /\ [][NextSummary]_vars

(* ============================ properties =============================== *)
(* ----------------------- department hierarchy -------------------------- *)
ParentOf(d) == IF get_department(d) THEN departments[d].parent ELSE NULL

RECURSIVE AncestorAt(_, _)
\* the department k parent links above d (d itself for k = 0)
AncestorAt(d, k) == IF k = 0 THEN d ELSE AncestorAt(ParentOf(d), k - 1)

\* the parent links form a forest: each names no row or an existing row, and
\* following them from any row leaves the table within as many steps as it has rows
DepartmentsAreATree ==
  /\ \A d \in 1..Len(departments) :
        departments[d].parent = NULL \/ get_department(departments[d].parent)
  /\ \A d \in 1..Len(departments) : ~get_department(AncestorAt(d, Len(departments)))

\* root and every department that reaches root by parent links
SubTree(root) ==
  {d \in 1..Len(departments) : \E k \in 0..Len(departments) : AncestorAt(d, k) = root}

IsUpperManagerOf(u, d) ==
  /\ UserActive(u)
  /\ get_user_primary_role(u).role = "upper_manager"
  /\ get_user_primary_role(u).dept = d
  /\ get_department(d)

\* C5: on a department tree, for an active upper-manager of an existing
\* department, get_accessible_departments returns that department and every
\* department below it by child links, each id once and nothing else.
C5_AccessibleIsSubTree ==
  \A u \in Users, d \in DeptIds :
     (DepartmentsAreATree /\ IsUpperManagerOf(u, d)) =>
        LET got == get_accessible_departments(u) IN
        /\ got.terminates
        /\ Range(got.ids) = SubTree(d)
        /\ Len(got.ids) = Cardinality(SubTree(d))

\* an upper-manager at the top of a chain of three departments
C5_Witness ==
  \E u \in Users, d \in DeptIds :
     /\ DepartmentsAreATree
     /\ IsUpperManagerOf(u, d)
     /\ \E c \in SubTree(d), g \in SubTree(d) :
           c # d /\ g # d /\ ParentOf(c) = d /\ ParentOf(g) = c
     /\ Range(get_accessible_departments(u).ids) = SubTree(d)

\* C6: get_department_hierarchy returns for every department table, also one
\* whose parent links form a cycle.
C6_HierarchyTerminates ==
  \A d \in DeptIds : get_department_hierarchy(d).terminates

(* ------------------------------ /summary ------------------------------- *)
\* C8: when the summarization call of summary_command ends with the safety
\* (policy-block) result, the command answers with the rejection message and
\* the summaries table is left as it was.
C8_SafetyBlockPersistsNothing ==
  [][\A u \in Users :
        (CallsSummarize(u) /\ summary_command(u, "safety")) =>
           /\ summaries' = summaries
           /\ reply' = ReplyText("summary_failed", MsgSafety)]_vars

\* the rejection of a blocked summary has been sent
C8_Witness ==
  /\ reply = ReplyText("summary_failed", MsgSafety)
  /\ \E u \in Users : CallsSummarize(u)

(* --------------------------- report workflow --------------------------- *)
AllowedTransitions ==
  {<<"draft", "submitted">>, <<"submitted", "approved">>, <<"submitted", "rejected">>}

\* C2: the only changes of a report's status are draft -> submitted,
\* submitted -> approved and submitted -> rejected.
C2_OnlyAllowedTransitions ==
  [][\A rid \in 1..Len(reports) :
        reports'[rid].status # reports[rid].status =>
           <<reports[rid].status, reports'[rid].status>> \in AllowedTransitions]_vars

\* C9: the content of a stored cumulative report is a summary the service
\* produced, never one of summarize_text's error messages.
C9_CumulativeContentIsSummary ==
  \A rid \in 1..Len(reports) :
     reports[rid].is_cumulative => reports[rid].content = MsgSummary

\* C10: no cumulative report is in draft status.
C10_CumulativeNeverDraft ==
  \A rid \in 1..Len(reports) :
     reports[rid].is_cumulative => reports[rid].status # "draft"

\* a cumulative report has been created from an approved report
C10_Witness ==
  \E rid \in 1..Len(reports) :
     /\ reports[rid].is_cumulative
     /\ reports[rid].sources # {}
     /\ \A src \in reports[rid].sources : reports[src].status = "approved"

(* ------------------------- viewing and approving ----------------------- *)
\* reports.visibility: the column default and the value can_view_report tests
Visibilities == {"department", "public"}

\* C1 as stated: whoever submitted a report can view it, in every state.
C1_OwnReportAlwaysViewable ==
  \A u \in Users, rid \in 1..Len(reports) :
     reports[rid].submitted_by = u => can_view_report(u, rid).value

\* C1: an active user can view every report of their own that get_report
\* resolves (its department row exists), whatever the report's department and
\* visibility are.
C1_ActiveOwnerViewsResolvedReport ==
  \A u \in Users, rid \in 1..Len(reports) :
     (reports[rid].submitted_by = u /\ UserActive(u) /\ get_report(rid)) =>
        /\ can_view_report(u, rid) = [terminates |-> TRUE, value |-> TRUE]
        /\ \A vis \in Visibilities :
              ViewRow(u, [reports[rid] EXCEPT !.visibility = vis]).value

\* the submitter has since moved to another department and still views the report
C1_Witness ==
  \E u \in Users, rid \in 1..Len(reports) :
     /\ reports[rid].submitted_by = u
     /\ UserActive(u)
     /\ get_report(rid)
     /\ get_user_department(u) # reports[rid].dept
     /\ ~can_access_department(u, reports[rid].dept).value
     /\ can_view_report(u, rid).value

\* C3: for a report that get_report resolves, can_approve_report is true
\* exactly when the user is active, holds the approve capability, is not the
\* submitter, and the report's department is one of
\* get_accessible_departments(user).
C3_ApproveIffFourConditions ==
  \A u \in Users, rid \in 1..Len(reports) :
     LET can == can_approve_report(u, rid)
         acc == get_accessible_departments(u)
     IN get_report(rid) =>
        ((can.terminates /\ can.value) <=>
           /\ UserActive(u)
           /\ has_permission(u, "can_approve")
           /\ reports[rid].submitted_by # u
           /\ acc.terminates
           /\ reports[rid].dept \in Range(acc.ids))

\* C7, its particular case: an active user whose highest role is employee
\* cannot view a non-public report that someone else submitted in the
\* employee's own department.
C7_EmployeeCannotViewColleague ==
  \A u \in Users, rid \in 1..Len(reports) :
     (/\ UserActive(u)
      /\ get_user_primary_role(u).role = "employee"
      /\ get_accessible_departments(u).ids = <<>>
      /\ reports[rid].submitted_by # u
      /\ reports[rid].visibility # "public"
      /\ reports[rid].dept = get_user_department(u)) =>
        ~can_view_report(u, rid).value

(* --------------------------- role assignment --------------------------- *)
\* the rank of a user's own highest role; 0 without an active role
RankOf(u) ==
  IF get_user_primary_role(u) = NoRole THEN 0
  ELSE RoleLevel(get_user_primary_role(u).role)

\* this step is an assignment of role_name to t that a made and that changed
\* the user_roles table
Grants(a, t, role_name) ==
  /\ user_roles' # user_roles
  /\ \/ role_name = "admin" /\ (create_admin_command(a, t) \/ web_create_admin(a, t))
     \/ \E d \in {NULL} \cup DeptIds : promote_manager_command(a, t, role_name, d)
     \/ web_promote_user(a, t, role_name)
     \/ \E d \in DeptIds : web_assign_user_department(a, t, d, role_name)

\* C4: no assignment gives a target a role whose rank is equal to or higher
\* than the rank of the assigner's own highest role.
C4_NoEqualOrHigherRankGranted ==
  [][\A a \in Users, t \in Users, role_name \in RoleNames :
        Grants(a, t, role_name) => RoleLevel(role_name) < RankOf(a)]_vars

(* ----------------------- accessible departments ------------------------ *)
\* C11: for a user who is not an upper-manager, get_accessible_departments
\* is every department of the table for an active admin, the one department
\* of an active manager, and empty otherwise.
C11_AccessibleByRole ==
  \A u \in Users :
     LET role == get_user_primary_role(u)
         acc == get_accessible_departments(u)
     IN role.role # "upper_manager" =>
          IF UserActive(u) /\ role.role = "admin"
          THEN Range(acc.ids) = 1..Len(departments)
          ELSE IF UserActive(u) /\ role.role = "manager" /\ role.dept # NULL
          THEN acc.ids = <<role.dept>>
          ELSE acc.ids = <<>>

\* C12: the parent links of the departments table form a forest: following
\* them from a department never leads back to that department.
C12_NoDepartmentIsItsOwnAncestor ==
  \A d \in 1..Len(departments), k \in 1..Len(departments) : AncestorAt(d, k) # d

(* --------------------------- primary role flag ------------------------- *)
\* DatabaseEnhanced.assign_role called with any arguments (the handlers and
\* routes always pass is_primary = True)
call_assign_role(u, role_name, dept, is_primary) ==
  /\ RoleRowFits(u, role_name, dept)
  /\ user_roles' = assign_role(u, role_name, dept, is_primary)
  /\ reply' = Reply("none")
  /\ UNCHANGED <<users, departments, reports, approvals, summaries, cum_menu,
               txn, conv>>

\* assign_role calls interleaved with admin-role removal and user deactivation
NextAssignRole ==
  \/ \E u \in Users : start(u)
  \/ \E u \in Users, role_name \in RoleNames, d \in {NULL} \cup 1..AssignDepts,
        is_primary \in BOOLEAN : call_assign_role(u, role_name, d, is_primary)
  \/ \E a \in Users, t \in Users : remove_admin_command(a, t)
  \/ \E a \in Users, t \in Users : remove_user_command(a, t)

SpecAssignRole == Init /\ [][NextAssignRole]_vars

PrimaryRows(u) == {i \in 1..Len(user_roles) : user_roles[i].user = u /\ user_roles[i].primary}

\* C13: every user has at most one user_roles row flagged is_primary.
C13_AtMostOnePrimary ==
  \A u \in Users : Cardinality(PrimaryRows(u)) <= 1

\* a user holds two assignments, the later one primary, the earlier one no longer
C13_Witness ==
  \E u \in Users, i \in 1..Len(user_roles), j \in 1..Len(user_roles) :
     /\ i < j
     /\ user_roles[i].user = u /\ user_roles[j].user = u
     /\ ~user_roles[i].primary /\ user_roles[j].primary
     /\ PrimaryRows(u) = {j}

(* ------------------------- requester active status --------------------- *)
\* the operations that write a department, a role assignment, a report, an
\* approval or a cumulative report on behalf of requester a
WritesFor(a) ==
  \/ \E action \in {"submit_report", "draft_report"} : save_report(a, action)
  \/ \E rid \in ReportIds : approve_report_command(a, rid)
  \/ \E rid \in ReportIds : approve_button_callback(a, rid)
  \/ \E since \in ReportIds, outcome \in GeminiOutcomes :
        cumulative_period_handler(a, since, outcome)
  \/ \E d \in DeptIds : register_department_callback(a, d)
  \/ \E t \in Users : create_admin_command(a, t)
  \/ \E t \in Users, role_name \in {"manager", "upper_manager"}, d \in {NULL} \cup DeptIds :
        promote_manager_command(a, t, role_name, d)
  \/ \E t \in Users : web_create_admin(a, t)
  \/ \E t \in Users, role_name \in {"manager", "upper_manager"} : web_promote_user(a, t, role_name)
  \/ \E t \in Users, d \in DeptIds, role_name \in {"employee", "manager", "upper_manager"} :
        web_assign_user_department(a, t, d, role_name)
  \/ \E parent_id \in {NULL} \cup DeptIds : web_create_department(a, parent_id)

\* C14: while a requester's account is inactive, no operation run on their
\* behalf can add a department, a role assignment, a report or an approval.
C14_InactiveRequesterWritesNothing ==
  \A a \in Users :
     ~UserActive(a) =>
        ~ENABLED (WritesFor(a)
                  /\ <<departments, user_roles, reports, approvals>>'
                       # <<departments, user_roles, reports, approvals>>)

(* -------------------------- authorization denials ---------------------- *)
\* a step of a handler whose authorization check denies the requester
DenialStep ==
  \/ \E a \in Users, rid \in ReportIds :
        /\ can_approve_report(a, rid).terminates /\ ~can_approve_report(a, rid).value
        /\ approve_report_command(a, rid)
  \/ \E a \in Users : ~can_create_cumulative_report(a) /\ create_cumulative_command(a)
  \/ \E a \in Users, action \in {"submit_report", "draft_report"} :
        /\ get_user_department(a) # NULL
        /\ ~validate_report_creation(a, get_user_department(a))
        /\ save_report(a, action)
  \/ \E a \in Users, t \in Users :
        /\ ~is_admin(a)
        /\ \/ create_admin_command(a, t)
           \/ remove_admin_command(a, t)
           \/ remove_user_command(a, t)
           \/ activate_user_command(a, t)
           \/ \E role_name \in {"manager", "upper_manager"}, d \in {NULL} \cup DeptIds :
                 promote_manager_command(a, t, role_name, d)

\* C15: a denied request is answered with the denial message and changes no
\* table.
C15_DenialAnswersAndChangesNothing ==
  [][DenialStep =>
       /\ reply'.kind = "refused"
       /\ UNCHANGED <<users, departments, user_roles, reports, approvals, summaries>>]_vars

(* ---------------------------- approval records ------------------------- *)
\* C16: every approved report has an approval record with status approved,
\* and no approval record names the submitter of its report as approver.
C16_ApprovedHasForeignApproval ==
  /\ \A rid \in 1..Len(reports) :
        reports[rid].status = "approved" =>
           \E i \in 1..Len(approvals) :
              approvals[i].report = rid /\ approvals[i].status = "approved"
  /\ \A i \in 1..Len(approvals) :
        approvals[i].report \in 1..Len(reports)
        /\ reports[approvals[i].report].submitted_by # approvals[i].approver

\* a report was approved and its approval record names another user
C16_Witness ==
  \E rid \in 1..Len(reports), i \in 1..Len(approvals) :
     /\ reports[rid].status = "approved"
     /\ approvals[i].report = rid /\ approvals[i].status = "approved"
     /\ approvals[i].approver # reports[rid].submitted_by

Locks == {"handlers.db.lock", "report_handlers.db.lock", "app.db.lock"}
NoLock == "none"

\* the handlers and routes that write: the thread that runs them and the lock
\* their statements run under (NoLock: a connection opened by the handler
\* itself, outside any with-block)
WriteOps ==
  {[op |-> "start", thread |-> "bot", lock |-> "handlers.db.lock"],
   [op |-> "summary_command", thread |-> "bot", lock |-> "handlers.db.lock"],
   [op |-> "register_command", thread |-> "bot", lock |-> "report_handlers.db.lock"],
   [op |-> "register_department_callback", thread |-> "bot", lock |-> "report_handlers.db.lock"],
   [op |-> "save_report", thread |-> "bot", lock |-> "report_handlers.db.lock"],
   [op |-> "approve_report_command", thread |-> "bot", lock |-> "report_handlers.db.lock"],
   [op |-> "cumulative_period_handler", thread |-> "bot", lock |-> "report_handlers.db.lock"],
   [op |-> "create_admin_command", thread |-> "bot", lock |-> "report_handlers.db.lock"],
   [op |-> "promote_manager_command", thread |-> "bot", lock |-> "report_handlers.db.lock"],
   [op |-> "remove_admin_command", thread |-> "bot", lock |-> NoLock],
   [op |-> "remove_user_command", thread |-> "bot", lock |-> NoLock],
   [op |-> "activate_user_command", thread |-> "bot", lock |-> NoLock],
   [op |-> "web create_admin", thread |-> "web", lock |-> "app.db.lock"],
   [op |-> "web promote_user", thread |-> "web", lock |-> "app.db.lock"],
   [op |-> "web remove_user", thread |-> "web", lock |-> "app.db.lock"],
   [op |-> "web activate_user", thread |-> "web", lock |-> "app.db.lock"],
   [op |-> "web assign_user_department", thread |-> "web", lock |-> "app.db.lock"],
   [op |-> "web create_department", thread |-> "web", lock |-> "app.db.lock"],
   [op |-> "web remove_department", thread |-> "web", lock |-> "app.db.lock"]}

InWrite(t) == txn[t].phase # "idle"

\* the lock thread t holds for its write in progress
HeldLock(t) ==
  IF InWrite(t) THEN (CHOOSE w \in WriteOps : w.op = txn[t].op).lock ELSE NoLock

\* the connection that holds SQLite's write lock on the database file
sqlite_writer(t) == txn[t].phase = "writing"

\* with self.lock: conn = sqlite3.connect(db_path); a thread waits while
\* another holds the same lock object
connect(t, w) ==
  /\ w.thread = t
  /\ ~InWrite(t)
  /\ w.lock # NoLock => \A o \in Threads \ {t} : HeldLock(o) # w.lock
  /\ txn' = [txn EXCEPT ![t] = [op |-> w.op, phase |-> "connected"]]
  /\ UNCHANGED <<users, departments, user_roles, reports, approvals, summaries,
               cum_menu, reply, conv>>

\* cursor.execute of the INSERT or UPDATE: the connection takes the file's
\* write lock, which only one connection holds at a time
execute(t) ==
  /\ txn[t].phase = "connected"
  /\ \A o \in Threads \ {t} : ~sqlite_writer(o)
  /\ txn' = [txn EXCEPT ![t].phase = "writing"]
  /\ UNCHANGED <<users, departments, user_roles, reports, approvals, summaries,
               cum_menu, reply, conv>>

\* cursor.execute while another connection holds the write lock: after the
\* connection's timeout sqlite3 raises OperationalError (database is locked)
database_is_locked(t) ==
  /\ txn[t].phase = "connected"
  /\ \E o \in Threads \ {t} : sqlite_writer(o)
  /\ txn' = [txn EXCEPT ![t] = IdleTxn]
  /\ UNCHANGED <<users, departments, user_roles, reports, approvals, summaries,
               cum_menu, reply, conv>>

\* conn.commit(); conn.close(), and the end of the with-block
commit(t) ==
  /\ txn[t].phase = "writing"
  /\ txn' = [txn EXCEPT ![t] = IdleTxn]
  /\ UNCHANGED <<users, departments, user_roles, reports, approvals, summaries,
               cum_menu, reply, conv>>

\* The two threads of main_enhanced, each inside its writes.
NextLocks ==
  \/ \E t \in Threads, w \in WriteOps : connect(t, w)
  \/ \E t \in Threads : execute(t)
  \/ \E t \in Threads : database_is_locked(t)
  \/ \E t \in Threads : commit(t)

SpecLocks == Init /\ [][NextLocks]_vars

\* C18: every write in progress holds a lock, the same one for every write,
\* so the bot's thread and the web server's thread are never both inside a
\* write.
C18_WritesUnderOneLock ==
  /\ \A t \in Threads : InWrite(t) => HeldLock(t) # NoLock
  /\ \A t1 \in Threads : \A t2 \in Threads \ {t1} : ~(InWrite(t1) /\ InWrite(t2))

(* ------------------------------ the wizards ---------------------------- *)
\* the users who talk to the wizards
WizardUsers == 1..MaxWizardUser

\* a handler that raises, or an update no handler takes: nothing is answered
\* and nothing changes
NothingHappens ==
  /\ reply' = Reply("none")
  /\ UNCHANGED <<users, departments, user_roles, reports, approvals, summaries,
               cum_menu, txn, conv>>

KeepsTables ==
  UNCHANGED <<users, departments, user_roles, reports, approvals, summaries, cum_menu, txn>>

\* report_handlers.create_department_command: entry point of create_dept_conv
create_department_command(u) ==
  /\ conv[u].dept = END
  /\ IF get_user_primary_role(u) = NoRole
     THEN reply' = Reply("refused") /\ UNCHANGED conv
     ELSE IF get_user_primary_role(u).role \notin {"manager", "upper_manager", "admin"}
     THEN reply' = Reply("refused") /\ UNCHANGED conv
     ELSE reply' = Reply("done") /\ conv' = [conv EXCEPT ![u].dept = "DEPT_NAME_AR"]
  /\ KeepsTables

\* dept_name_ar_handler; long_enough: len(text.strip()) >= 2
dept_name_ar_handler(u, long_enough) ==
  /\ conv[u].dept = "DEPT_NAME_AR"
  /\ IF ~long_enough
     THEN reply' = Reply("refused") /\ UNCHANGED conv
     ELSE /\ reply' = Reply("done")
          /\ conv' = [conv EXCEPT ![u].dept = "DEPT_NAME_EN",
                                  ![u].bag = @ \cup {"dept_name_ar"}]
  /\ KeepsTables

\* dept_name_en_handler: with no department to choose from it stores no
\* parent, shows the confirmation and still returns DEPT_PARENT
dept_name_en_handler(u, long_enough) ==
  /\ conv[u].dept = "DEPT_NAME_EN"
  /\ IF ~long_enough
     THEN reply' = Reply("refused") /\ UNCHANGED conv
     ELSE /\ reply' = Reply("done")
          /\ conv' = [conv EXCEPT ![u].dept = "DEPT_PARENT",
                                  ![u].bag = IF get_all_departments # {}
                                             THEN @ \cup {"dept_name_en"}
                                             ELSE @ \cup {"dept_name_en", "parent_dept_id"}]
  /\ KeepsTables

\* dept_parent_callback: the button dept_parent_none (NULL) or dept_parent_<id>
dept_parent_callback(u, parent_id) ==
  /\ conv[u].dept = "DEPT_PARENT"
  /\ IF parent_id # NULL /\ ~get_department(parent_id)
     THEN reply' = Reply("refused") /\ conv' = [conv EXCEPT ![u].dept = END]
     ELSE /\ reply' = Reply("done")
          /\ conv' = [conv EXCEPT ![u].dept = "DEPT_CONFIRM",
                                  ![u].bag = @ \cup {"parent_dept_id"}]
  /\ KeepsTables

\* the confirmation message with its two buttons has been sent to u
DeptConfirmationShown(u) ==
  \/ conv[u].dept = "DEPT_CONFIRM"
  \/ conv[u].dept = "DEPT_PARENT" /\ "parent_dept_id" \in conv[u].bag

\* the button dept_confirm_yes: in DEPT_CONFIRM dept_confirm_callback calls
\* create_department with keywords the method does not take and raises
\* TypeError; in DEPT_PARENT no handler matches the button
dept_confirm_yes(u) ==
  /\ DeptConfirmationShown(u)
  /\ NothingHappens

\* the button dept_confirm_no
dept_confirm_no(u) ==
  /\ DeptConfirmationShown(u)
  /\ IF conv[u].dept = "DEPT_CONFIRM"
     THEN /\ reply' = Reply("done")
          /\ conv' = [conv EXCEPT ![u].dept = END, ![u].bag = {}]
          /\ KeepsTables
     ELSE NothingHappens

\* report_handlers.create_report_command: entry point of create_report_conv
create_report_command(u) ==
  /\ conv[u].report = END
  /\ IF ~can_create_report(u)
     THEN reply' = Reply("refused") /\ UNCHANGED conv
     ELSE reply' = Reply("done") /\ conv' = [conv EXCEPT ![u].report = "REPORT_TITLE"]
  /\ KeepsTables

\* a text message goes to the first conversation that waits for one
DeptTakesText(u) == conv[u].dept \in {"DEPT_NAME_AR", "DEPT_NAME_EN"}

report_title(u) ==
  /\ ~DeptTakesText(u)
  /\ conv[u].report = "REPORT_TITLE"
  /\ reply' = Reply("done")
  /\ conv' = [conv EXCEPT ![u].report = "REPORT_CONTENT",
                          ![u].bag = @ \cup {"report_title"}]
  /\ KeepsTables

report_content(u) ==
  /\ ~DeptTakesText(u)
  /\ conv[u].report = "REPORT_CONTENT"
  /\ reply' = Reply("done")
  /\ conv' = [conv EXCEPT ![u].report = "REPORT_TYPE",
                          ![u].bag = @ \cup {"report_content"}]
  /\ KeepsTables

\* report_confirm: one of the rtype_ buttons
report_confirm(u) ==
  /\ conv[u].report = "REPORT_TYPE"
  /\ reply' = Reply("done")
  /\ conv' = [conv EXCEPT ![u].report = "REPORT_CONFIRM",
                          ![u].bag = @ \cup {"report_type"}]
  /\ KeepsTables

\* the buttons submit_report and draft_report of the review message
save_report_button(u, action) ==
  /\ conv[u].report = "REPORT_CONFIRM"
  /\ save_report(u, action)

\* cancel_report run for the button cancel_report of the review message
cancel_report_button(u) ==
  /\ conv[u].report = "REPORT_CONFIRM"
  /\ reply' = Reply("done")
  /\ conv' = [conv EXCEPT ![u].report = END, ![u].bag = {}]
  /\ KeepsTables

\* /cancel: the fallback of the first conversation that is running.
\* cancel_dept_creation clears and ends; cancel_report reads
\* update.callback_query, which a command does not carry, and raises
\* AttributeError on query.answer() before anything is cleared
cancel_command(u) ==
  /\ conv[u].dept # END \/ conv[u].report # END
  /\ IF conv[u].dept # END
     THEN /\ reply' = Reply("done")
          /\ conv' = [conv EXCEPT ![u].dept = END, ![u].bag = {}]
          /\ KeepsTables
     ELSE NothingHappens

KeepsWizard == Len(departments') <= FlowDepts /\ Len(reports') <= AccessReports

\* One user walking through both wizards.
NextWizard ==
  \/ \E u \in WizardUsers : register_command(u) /\ KeepsWizard
  \/ \E u \in WizardUsers, d \in DeptIds : register_department_callback(u, d) /\ KeepsWizard
  \/ \E t \in WizardUsers : promote_manager_command(ADMIN_USER_ID, t, "manager", NULL) /\ KeepsWizard
  \/ web_create_department(ADMIN_USER_ID, NULL) /\ KeepsWizard
  \/ \E u \in WizardUsers : create_department_command(u) /\ KeepsWizard
  \/ \E u \in WizardUsers, long_enough \in BOOLEAN : dept_name_ar_handler(u, long_enough) /\ KeepsWizard
  \/ \E u \in WizardUsers, long_enough \in BOOLEAN : dept_name_en_handler(u, long_enough) /\ KeepsWizard
  \/ \E u \in WizardUsers, parent_id \in {NULL} \cup DeptIds : dept_parent_callback(u, parent_id) /\ KeepsWizard
  \/ \E u \in WizardUsers : dept_confirm_yes(u) /\ KeepsWizard
  \/ \E u \in WizardUsers : dept_confirm_no(u) /\ KeepsWizard
  \/ \E u \in WizardUsers : create_report_command(u) /\ KeepsWizard
  \/ \E u \in WizardUsers : report_title(u) /\ KeepsWizard
  \/ \E u \in WizardUsers : report_content(u) /\ KeepsWizard
  \/ \E u \in WizardUsers : report_confirm(u) /\ KeepsWizard
  \/ \E u \in WizardUsers, action \in {"submit_report", "draft_report"} :
        save_report_button(u, action) /\ KeepsWizard
  \/ \E u \in WizardUsers : cancel_report_button(u) /\ KeepsWizard
  \/ \E u \in WizardUsers : cancel_command(u) /\ KeepsWizard

SpecWizard == Init /\ [][NextWizard]_vars

\* a cancellation request of user u: the /cancel command or a cancel button
CancelRequest(u) ==
  cancel_command(u) \/ dept_confirm_no(u) \/ cancel_report_button(u)

\* C19: after a cancellation request the user's data bag is empty and the
\* wizard the request went to is back in the idle state.
C19_CancelEmptiesBagAndEnds ==
  [][\A u \in WizardUsers :
        CancelRequest(u) =>
           /\ conv'[u].bag = {}
           /\ conv[u].dept # END => conv'[u].dept = END
           /\ conv[u].dept = END => conv'[u].report = END]_vars

(* -------------------------- submission timestamp ----------------------- *)
\* C20: a report carries a submission timestamp exactly when its status is
\* not draft.
C20_StampedIffNotDraft ==
  \A rid \in 1..Len(reports) :
     reports[rid].stamped <=> reports[rid].status # "draft"

(* ------------------------ duplicate role assignment -------------------- *)
\* the rows of user_roles' that carry the triple (u, role_name, dept)
TripleRowsAfter(u, role_name, dept) ==
  {i \in 1..Len(user_roles') :
     /\ user_roles'[i].user = u
     /\ user_roles'[i].role = role_name
     /\ user_roles'[i].dept = dept}

\* C21: assign_role for a triple the user already holds, active or revoked,
\* with or without a department, leaves exactly one row for the triple, and
\* that row is active.
C21_DuplicateAssignmentUpdatesInPlace ==
  [][\A u \in Users, role_name \in RoleNames, dept \in {NULL} \cup 1..AssignDepts,
        is_primary \in BOOLEAN :
        ((\E i \in 1..Len(user_roles) :
             /\ user_roles[i].user = u
             /\ user_roles[i].role = role_name
             /\ user_roles[i].dept = dept)
         /\ call_assign_role(u, role_name, dept, is_primary)) =>
           /\ Cardinality(TripleRowsAfter(u, role_name, dept)) = 1
           /\ \A i \in TripleRowsAfter(u, role_name, dept) : user_roles'[i].active]_vars

(* ----------------------------- effective role -------------------------- *)
\* C22: the role and department the access decisions use are those of the
\* user's active assignment flagged is_primary.
C22_EffectiveRoleIsPrimaryAssignment ==
  \A u \in Users, i \in 1..Len(user_roles) :
     (user_roles[i].user = u /\ user_roles[i].active /\ user_roles[i].primary) =>
        /\ get_user_primary_role(u).role = user_roles[i].role
        /\ get_user_department(u) = user_roles[i].dept

(* --------------------------- web report endpoint ----------------------- *)
\* web api_get_report: TRUE when the JSON answer carries the report.  With no
\* active role user_role is None and the subscript raises; the except clause
\* answers success false.
api_get_report(u, rid) ==
  LET user_role == get_user_primary_role(u) IN
  IF ~get_report(rid) THEN FALSE
  ELSE IF user_role = NoRole THEN FALSE
  ELSE IF user_role.role = "admin" THEN TRUE
  ELSE IF reports[rid].submitted_by = u THEN TRUE
  ELSE user_role.dept = reports[rid].dept

\* C23: for a user who can log in to the panel, api_get_report returns a
\* report exactly when can_view_report allows it.
C23_WebViewMatchesBotView ==
  \A u \in Users, rid \in 1..Len(reports) :
     WebLogin(u) => (api_get_report(u, rid) <=> can_view_report(u, rid).value)

(* --------------------------- department wizard ------------------------- *)
\* C24: a positive confirmation of the department wizard adds exactly one
\* department row, a root at level 0 or a child one level below its parent,
\* and returns the conversation to idle with an empty bag.
C24_ConfirmCreatesOneDepartment ==
  [][\A u \in WizardUsers :
        dept_confirm_yes(u) =>
           /\ Len(departments') = Len(departments) + 1
           /\ SubSeq(departments', 1, Len(departments)) = departments
           /\ LET row == departments'[Len(departments')]
              IN row.level = IF row.parent = NULL THEN 0
                             ELSE departments[row.parent].level + 1
           /\ conv'[u].dept = END
           /\ conv'[u].bag = {}]_vars

(* ------------------------- deactivation is lasting --------------------- *)
\* what a user can start themselves: /start, /register and the department
\* button of the registration keyboard
SelfInitiated(u) ==
  \/ start(u)
  \/ register_command(u)
  \/ \E d \in DeptIds : register_department_callback(u, d)

\* C25: an action of a deactivated user neither sets their account back to
\* active nor re-activates one of their revoked role assignments.
C25_DeactivatedUserStaysInactive ==
  [][\A u \in Users :
        (users[u] = "inactive" /\ SelfInitiated(u)) =>
           /\ users'[u] = "inactive"
           /\ \A i \in 1..Len(user_roles) :
                 (user_roles[i].user = u /\ ~user_roles[i].active) =>
                    ~user_roles'[i].active]_vars

(* --------------------------- cumulative reports ------------------------ *)
\* Cumulative reports while users are being deactivated.
NextCumulative ==
  \/ \E u \in Users : register_command(u) /\ KeepsFlow
  \/ \E a \in Users, t \in Users, d \in 1..FlowDepts :
        promote_manager_command(a, t, "upper_manager", d) /\ KeepsFlow
  \/ \E a \in Users : web_create_department(a, NULL) /\ KeepsFlow
  \/ \E u \in Users : save_report(u, "submit_report") /\ KeepsFlow
  \/ \E u \in Users, rid \in ReportIds : approve_report_command(u, rid) /\ KeepsFlow
  \/ \E u \in Users : create_cumulative_command(u) /\ KeepsFlow
  \/ \E u \in Users, since \in ReportIds, outcome \in GeminiOutcomes :
        cumulative_period_handler(u, since, outcome) /\ KeepsFlow
  \/ \E a \in Users, t \in Users : web_remove_user(a, t) /\ KeepsFlow

SpecCumulative == Init /\ [][NextCumulative]_vars

\* C26: when a cumulative report is persisted for user u, u is active and
\* holds the create-cumulative capability at that moment, and every source
\* report is approved and lies in a department accessible to u.
C26_CumulativeOnlyForEntitledUser ==
  [][\A u \in Users :
        (/\ Len(reports') = Len(reports) + 1
         /\ reports'[Len(reports')].is_cumulative
         /\ reports'[Len(reports')].submitted_by = u) =>
           /\ UserActive(u)
           /\ can_create_cumulative_report(u)
           /\ \A s \in reports'[Len(reports')].sources :
                 /\ s \in 1..Len(reports)
                 /\ reports[s].status = "approved"
                 /\ reports[s].dept \in Range(get_accessible_departments(u).ids)]_vars

(* ------------------------- administration lock-out --------------------- *)
\* The admin commands of the bot and the admin routes of the panel.
NextAdmin ==
  \/ \E u \in Users : start(u) /\ KeepsFlow
  \/ web_create_department(ADMIN_USER_ID, NULL) /\ KeepsFlow
  \/ \E a \in Users, t \in Users : create_admin_command(a, t) /\ KeepsFlow
  \/ \E a \in Users, t \in Users : remove_admin_command(a, t) /\ KeepsFlow
  \/ \E a \in Users, t \in Users : remove_user_command(a, t) /\ KeepsFlow
  \/ \E a \in Users, t \in Users : activate_user_command(a, t) /\ KeepsFlow
  \/ \E a \in Users, t \in Users, d \in 1..FlowDepts :
        promote_manager_command(a, t, "manager", d) /\ KeepsFlow
  \/ \E a \in Users, t \in Users : web_create_admin(a, t) /\ KeepsFlow
  \/ \E a \in Users, t \in Users : web_promote_user(a, t, "manager") /\ KeepsFlow
  \/ \E a \in Users, t \in Users : web_remove_user(a, t) /\ KeepsFlow
  \/ \E a \in Users, t \in Users : web_activate_user(a, t) /\ KeepsFlow
  \/ \E a \in Users, t \in Users, d \in 1..FlowDepts :
        web_assign_user_department(a, t, d, "employee") /\ KeepsFlow

SpecAdmin == Init /\ [][NextAdmin]_vars

\* C27: at least one active user holds an active admin role.
C27_AnAdminRemains ==
  \E u \in Users : UserActive(u) /\ HasActiveAdminRole(u)

\* an admin role has been revoked and another admin is still there
C27_Witness ==
  /\ \E i \in 1..Len(user_roles) : user_roles[i].role = "admin" /\ ~user_roles[i].active
  /\ \E u \in Users : is_admin(u)

(* ------------------------------ saved reports -------------------------- *)
\* C28: when the report wizard persists a report for user u, u is active and
\* holds the create-report capability at that moment, and the report is filed
\* in the department of u's highest-ranked active role, which is not empty.
C28_SavedReportInSubmittersDepartment ==
  [][\A u \in Users :
        (/\ Len(reports') = Len(reports) + 1
         /\ ~reports'[Len(reports')].is_cumulative
         /\ reports'[Len(reports')].submitted_by = u) =>
           /\ UserActive(u)
           /\ can_create_report(u)
           /\ get_user_department(u) # NULL
           /\ reports'[Len(reports')].dept = get_user_primary_role(u).dept]_vars

\* a manager's report is on file while a deactivated user, who still has a
\* department, has none
C28_Witness ==
  /\ \E rid \in 1..Len(reports) :
        /\ ~reports[rid].is_cumulative
        /\ UserActive(reports[rid].submitted_by)
        /\ reports[rid].dept = get_user_department(reports[rid].submitted_by)
  /\ \E u \in Users :
        /\ users[u] = "inactive"
        /\ get_user_department(u) # NULL
        /\ \A rid \in 1..Len(reports) : reports[rid].submitted_by # u

(* ---------------------------- self-registration ------------------------ *)
\* the active rows of user u in user_roles'
ActiveRowsAfter(u) ==
  {i \in 1..Len(user_roles') : user_roles'[i].user = u /\ user_roles'[i].active}

\* C29: a step of the registration flow leaves user_roles unchanged when the
\* user already has an active role, and otherwise at most gives the user one
\* active row, with role employee, and touches no other user's rows.
C29_RegistrationGrantsEmployeeOnly ==
  [][\A u \in Users :
        (register_command(u) \/ \E d \in DeptIds : register_department_callback(u, d)) =>
           IF get_user_roles(u) # <<>>
           THEN user_roles' = user_roles
           ELSE /\ Cardinality(ActiveRowsAfter(u)) <= 1
                /\ \A i \in ActiveRowsAfter(u) : user_roles'[i].role = "employee"
                /\ \A i \in 1..Len(user_roles) :
                      user_roles[i].user # u => user_roles'[i] = user_roles[i]]_vars

\* a user registered as employee, and a manager whose later press of a
\* registration button changed nothing
C29_Witness ==
  /\ \E u \in Users :
        /\ Len(get_user_roles(u)) = 1
        /\ get_user_roles(u)[1].role = "employee"
  /\ \E u \in Users :
        /\ get_user_primary_role(u).role = "manager"
        /\ reply.kind = "refused"

(* ---------------------------- accessible reports ----------------------- *)
\* the largest limit a caller passes, scaled down
MaxLimit == 2

\* status=None (and every falsy status) adds no status condition
NoStatus == ""

StatusArgs == {NoStatus, "draft", "submitted", "approved"}

StatusMatches(rid, status) == status = NoStatus \/ reports[rid].status = status

\* the ids of S, newest row first
NewestFirst(S) ==
  [i \in 1..Cardinality(S) |->
     CHOOSE x \in S : Cardinality({y \in S : y > x}) = i - 1]

\* LIMIT n of a query, and the slice [:n]
FirstRows(s, n) == SubSeq(s, 1, IF n < Len(s) THEN n ELSE Len(s))

\* get_user_reports: the user's rows JOIN departments, ORDER BY created_at DESC
get_user_reports(u, limit, status) ==
  FirstRows(NewestFirst({rid \in 1..Len(reports) :
                            /\ reports[rid].submitted_by = u
                            /\ get_department(reports[rid].dept)
                            /\ StatusMatches(rid, status)}),
            limit)

\* get_department_reports: the department's rows JOIN users,
\* ORDER BY submitted_at DESC (a NULL submitted_at sorts last)
get_department_reports(dept_id, status, limit) ==
  LET rows == {rid \in 1..Len(reports) :
                 /\ reports[rid].dept = dept_id
                 /\ UserExists(reports[rid].submitted_by)
                 /\ StatusMatches(rid, status)}
  IN FirstRows(NewestFirst({rid \in rows : reports[rid].stamped})
                 \o NewestFirst({rid \in rows : ~reports[rid].stamped}),
               limit)

RECURSIVE ExtendAll(_, _, _)
\* for dept_id in accessible_depts: all_reports.extend(dept_reports)
ExtendAll(depts, status, limit) ==
  IF depts = <<>> THEN <<>>
  ELSE get_department_reports(Head(depts), status, limit)
          \o ExtendAll(Tail(depts), status, limit)

RECURSIVE UniqueReports(_, _)
\* the seen_ids loop: the first occurrence of every id, in order
UniqueReports(s, unique) ==
  IF s = <<>> THEN unique
  ELSE UniqueReports(Tail(s),
                     IF Head(s) \in Range(unique) THEN unique
                     ELSE Append(unique, Head(s)))

\* get_accessible_reports: [returns, ids].  returns = FALSE when the call
\* does not return a list: the hierarchy query never returns, or the sort
\* compares a None submitted_at (TypeError).
get_accessible_reports(u, limit, status) ==
  LET user_role == get_user_primary_role(u)
      accessible_depts == get_accessible_departments(u)
      all_reports == ExtendAll(accessible_depts.ids, status, limit)
      own_reports == get_user_reports(u, limit, status)
      unique_reports == UniqueReports(all_reports \o own_reports, <<>>)
  IN IF ~UserActive(u) THEN [returns |-> TRUE, ids |-> <<>>]
     ELSE IF user_role = NoRole THEN [returns |-> TRUE, ids |-> <<>>]
     ELSE IF "can_view_all" \in RolePermissions(user_role.role)
          THEN [returns |-> TRUE, ids |-> <<>>]
     ELSE IF ~accessible_depts.terminates THEN [returns |-> FALSE, ids |-> <<>>]
     ELSE IF accessible_depts.ids = <<>>
          THEN [returns |-> TRUE, ids |-> own_reports]
     ELSE IF /\ Len(unique_reports) >= 2
             /\ \E i \in 1..Len(unique_reports) : ~reports[unique_reports[i]].stamped
          THEN [returns |-> FALSE, ids |-> <<>>]
     ELSE [returns |-> TRUE,
           ids |-> FirstRows(NewestFirst(Range(unique_reports)), limit)]

\* C30: whenever get_accessible_reports returns a list, every report in it
\* passes can_view_report for that user, no report id occurs twice, and the
\* list is no longer than limit.
C30_AccessibleReportsNeverLeak ==
  \A u \in Users, limit \in 0..MaxLimit, status \in StatusArgs :
     LET res == get_accessible_reports(u, limit, status)
     IN res.returns =>
          /\ \A i \in 1..Len(res.ids) :
                /\ can_view_report(u, res.ids[i]).terminates
                /\ can_view_report(u, res.ids[i]).value
          /\ \A i \in 1..Len(res.ids), j \in 1..Len(res.ids) :
                res.ids[i] = res.ids[j] => i = j
          /\ Len(res.ids) <= limit

====
